---------------------------- MODULE Spec2Model ----------------------------
(***************************************************************************)
(* Model of the Yatube REST API handlers (yatube_api/api/views.py and      *)
(* yatube_api/api/serializers.py).                                         *)
(*                                                                         *)
(* State: the Post, Comment, Group and Follow tables, the auto-increment   *)
(* counters of Post and Comment, the request being answered and the        *)
(* response to it, and the requests to POST /follow/ that have passed      *)
(* their checks and not yet written their row.                             *)
(*                                                                         *)
(* There is one action per handler: the handler runs as one step on a      *)
(* request and leaves the request and the response, which Deliver then     *)
(* sends.  FollowView.post is also given in two steps (its checks, then    *)
(* its Follow.objects.create) for the specification that interleaves       *)
(* requests.                                                               *)
(*                                                                         *)
(* Usernames are sequences of one-character strings so that the CharField  *)
(* of FollowSerializer can trim them.  An optional foreign key is a set:   *)
(* {} is None and {g} is the row g.  Post.image and the creation           *)
(* timestamps are left out: the first is written exactly as `text` is, the *)
(* second is never written by a handler.                                   *)
(***************************************************************************)
EXTENDS Integers, Sequences, FiniteSets, Bags, TLC

VARIABLES
    posts,          \* Post rows: id -> [author, text, group]
    nextPostId,     \* the next primary key of Post
    comments,       \* Comment rows: id -> [author, post, text]
    nextCommentId,  \* the next primary key of Comment
    groups,         \* the primary keys of the Group rows
    follows,        \* Follow rows: a bag of [user, following]
    inflight,       \* POST /follow/ requests between check and create: a bag
    creator,        \* history: post id -> the caller whose request created it
    succeeded,      \* history: the (user, following) pairs answered 201
    req,            \* the request being answered, until its response is sent
    resp            \* the response to it

vars == <<posts, nextPostId, comments, nextCommentId, groups, follows,
          inflight, creator, succeeded, req, resp>>

---------------------------------------------------------------------------
(* Bounds of the model *)

\* Posts created in one behaviour.
MaxPosts == 2
\* Comments created in one behaviour.
MaxComments == 1
\* Largest collection a list endpoint is asked for.
MaxItems == 101
\* POST /follow/ requests in flight at once, per caller.
MaxInflight == 2

---------------------------------------------------------------------------
(* Users and requests *)

\* The space character.
SP == " "

\* The users that exist: their usernames.
Users == { <<"a">>, <<"b">>, <<"c">> }

\* The users who write posts and comments and who follow others.
Authors == { <<"a">>, <<"b">> }

\* The groups that exist when no list is asked for (groups are created
\* outside the API), and the primary keys a request may name: 0 and one
\* more than the last group name no group.
SomeGroups == {1}
GroupPks == {0, 1, 2}

\* request.user of a request that carries no token.
Anonymous == << >>

Callers == Authors \cup {Anonymous}

\* A username that no user has.
Ghost == <<"z">>

IsAuthenticated(caller) == caller \in Users

Texts == {"t1", "t2"}

Absent(val) == [has |-> FALSE, val |-> val]
Given(val) == [has |-> TRUE, val |-> val]

\* The body of a write to a post.  `author` is what a client may try to
\* smuggle in; group {} is JSON null.  Two more bodies carry a blank text
\* and the primary key 0.
PostData ==
    [text : {Absent("")} \cup {Given(t) : t \in Texts},
     group : {Absent({}), Given({})} \cup {Given({g}) : g \in GroupPks \ {0}},
     author : {Absent(Anonymous)} \cup {Given(u) : u \in Authors}]
    \cup
    { [text |-> Given(""), group |-> Absent({}), author |-> Absent(Anonymous)],
      [text |-> Given("t1"), group |-> Given({0}), author |-> Absent(Anonymous)] }

\* The body of a write to a comment.
CommentData ==
    [text : {Absent(""), Given("")} \cup {Given(t) : t \in Texts},
     post : {Absent(1), Given(1)}]

PostPathIds == 1..(MaxPosts + 1)
CommentPathIds == 1..(MaxComments + 1)

\* A query parameter: absent, a non-number, `last`, or an integer.
Param(ints) ==
    [kind : {"absent", "text", "last"}, val : {0}] \cup [kind : {"int"}, val : ints]

NoParam == [kind |-> "absent", val |-> 0]

\* The query of a list request.
Queries(limits, offsets) == [limit : limits, offset : offsets]

NoQuery == [limit |-> NoParam, offset |-> NoParam]

\* A request: the handler it is routed to (op), request.user, the path's
\* post_id and pk, whether it is a PATCH, its body and its query.
Request(op, caller, post_id, pk, partial, data, q) ==
    [op |-> op, caller |-> caller, post_id |-> post_id, pk |-> pk,
     partial |-> partial, data |-> data, q |-> q]

NoData == << >>

NoRequest == Request("none", Anonymous, 0, 0, FALSE, NoData, NoQuery)

---------------------------------------------------------------------------
(* Responses *)

NoKeys == {}

Response(op, status, keys, msg) ==
    [op |-> op, status |-> status, keys |-> keys, msg |-> msg,
     kind |-> "none", count |-> 0, ids |-> {}, obj |-> {}]

ObjectResponse(op, status, o) ==
    [op |-> op, status |-> status, keys |-> NoKeys, msg |-> "",
     kind |-> "object", count |-> 0, ids |-> {}, obj |-> {o}]

ListResponse(op, ids) ==
    [op |-> op, status |-> 200, keys |-> NoKeys, msg |-> "",
     kind |-> "list", count |-> 0, ids |-> ids, obj |-> {}]

PageResponse(op, count, ids) ==
    [op |-> op, status |-> 200, keys |-> NoKeys, msg |-> "",
     kind |-> "page", count |-> count, ids |-> ids, obj |-> {}]

NoResponse == Response("none", 0, NoKeys, "")

\* permission_classes refuse the request: no valid token.
NotAuthenticated(op) ==
    Response(op, 401, {"detail"}, "Authentication credentials were not provided.")

\* get_object() finds no row.
NotFound(op) == Response(op, 404, {"detail"}, "Not found.")

\* An exception that is no APIException leaves the handler.
ServerError(op, msg) == Response(op, 500, NoKeys, msg)

PostRepr(id, p) ==
    [id |-> id, author |-> p.author, text |-> p.text, group |-> p.group]

CommentRepr(id, c) ==
    [id |-> id, author |-> c.author, post |-> c.post, text |-> c.text]

---------------------------------------------------------------------------
(* Pagination *)

page_size == 10
max_page_size == 100

Min(a, b) == IF a < b THEN a ELSE b

\* ceil(a / b)
CeilDiv(a, b) == (a + b - 1) \div b

\* A page size without the cutoff of max_page_size.
GetPageSize_NoCutoff(q) ==
    IF q.limit.kind = "int" /\ q.limit.val > 0
    THEN q.limit.val
    ELSE page_size

\* PageNumberPagination.get_page_size: `limit` as a strictly positive
\* integer cut off at max_page_size, else page_size.
GetPageSize(q) ==
    IF q.limit.kind = "int" /\ q.limit.val > 0
    THEN Min(q.limit.val, max_page_size)
    ELSE page_size

\* Paginator.num_pages, with allow_empty_first_page and no orphans.
NumPages(count, size) == CeilDiv(IF count > 1 THEN count ELSE 1, size)

\* The ids of S in storage order from position bottom+1 to position top.
Slice(S, bottom, top) ==
    { x \in S : LET rank == Cardinality({ y \in S : y <= x })
                IN  bottom < rank /\ rank <= top }

\* StandardResultsPagination.paginate_queryset and the list() around it.
PaginatedList(op, S, q) ==
    IF q.limit.kind = "absent" /\ q.offset.kind = "absent"
    THEN ListResponse(op, S)
    ELSE LET size == GetPageSize(q)
             count == Cardinality(S)
             pages == NumPages(count, size)
             valid == \/ q.offset.kind \in {"absent", "last"}
                      \/ /\ q.offset.kind = "int"
                         /\ q.offset.val >= 1
                         /\ q.offset.val <= pages
             number == CASE q.offset.kind = "absent" -> 1
                         [] q.offset.kind = "last" -> pages
                         [] OTHER -> q.offset.val
             bottom == (number - 1) * size
             top == Min(bottom + size, count)
         IN  IF valid
             THEN PageResponse(op, count, Slice(S, bottom, top))
             ELSE Response(op, 404, {"detail"}, "Invalid page.")

---------------------------------------------------------------------------
(* Serializers *)

\* None, the value of a nullable foreign key that refers to no row.
None == {}

\* Python's truth value of request.data.get("group"): None and 0 are false.
Truthy(v) == v # None /\ v # {0}

\* A post serializer that does not look `group` up.
PostSerializerErrors_NoGroup(d, partial) ==
    {k \in {"text"} : \/ (~d.text.has /\ ~partial)
                      \/ (d.text.has /\ d.text.val = "")}

\* PostSerializer.is_valid: the fields whose validation fails.  `text` is
\* required (unless partial) and not blank; `group` is a primary key that
\* must name a Group, or null; `author` is read-only and never looked at.
PostSerializerErrors(d, partial) ==
    {k \in {"text"} : \/ (~d.text.has /\ ~partial)
                      \/ (d.text.has /\ d.text.val = "")}
    \cup
    {k \in {"group"} : /\ d.group.has
                       /\ d.group.val # None
                       /\ ~(d.group.val \subseteq groups)}

\* A post serializer whose `author` can be written.
PostSerializerUpdate_AuthorWritable(p, d) ==
    [p EXCEPT !.text = IF d.text.has THEN d.text.val ELSE @,
              !.group = IF d.group.has THEN d.group.val ELSE @,
              !.author = IF d.author.has THEN d.author.val ELSE @]

\* PostSerializer.save on an existing row: the writable fields the body
\* carries are written; `author` is read-only and stays.
PostSerializerUpdate(p, d) ==
    [p EXCEPT !.text = IF d.text.has THEN d.text.val ELSE @,
              !.group = IF d.group.has THEN d.group.val ELSE @]

\* CommentSerializer.is_valid: `text` is the only writable field.
CommentSerializerErrors(d, partial) ==
    {k \in {"text"} : \/ (~d.text.has /\ ~partial)
                      \/ (d.text.has /\ d.text.val = "")}

\* CommentSerializer.save on an existing row: `author` and `post` are
\* ReadOnlyFields and stay.
CommentSerializerUpdate(c, d) ==
    [c EXCEPT !.text = IF d.text.has THEN d.text.val ELSE @]

BadRequest(op, keys) == Response(op, 400, keys, "invalid")

---------------------------------------------------------------------------
(* Post endpoints *)

\* GET /posts/
PostList(caller, q) ==
    /\ resp' = PaginatedList("post_list", DOMAIN posts, q)
    /\ UNCHANGED <<posts, nextPostId, comments, nextCommentId, groups,
                   follows, inflight, creator, succeeded>>

\* perform_create's lookup of the group: the group to save, and whether
\* Group.objects.get found it.
PostCreateGroup(d) ==
    LET group_id == IF d.group.has THEN d.group.val ELSE None
    IN  IF ~Truthy(group_id)
        THEN [found |-> TRUE, group |-> None]
        ELSE [found |-> group_id \subseteq groups, group |-> group_id]

\* What PostListCreateView answers to POST /posts/, and the row it saves.
PostCreateResult(caller, d) ==
    LET op == "post_create"
        errors == PostSerializerErrors(d, FALSE)
        g == PostCreateGroup(d)
        row == [author |-> caller, text |-> d.text.val, group |-> g.group]
    IN  IF ~IsAuthenticated(caller)
        THEN [saved |-> FALSE, row |-> row, resp |-> NotAuthenticated(op)]
        ELSE IF errors # {}
        THEN [saved |-> FALSE, row |-> row, resp |-> BadRequest(op, errors)]
        ELSE IF ~g.found
        \* `serializer.ValidationError`: a serializer has no such attribute.
        THEN [saved |-> FALSE, row |-> row,
              resp |-> ServerError(op, "AttributeError")]
        ELSE [saved |-> TRUE, row |-> row,
              resp |-> ObjectResponse(op, 201, PostRepr(nextPostId, row))]

\* POST /posts/
PostCreate(caller, d) ==
    LET r == PostCreateResult(caller, d)
    IN  /\ r.saved => nextPostId <= MaxPosts
        /\ resp' = r.resp
        /\ IF r.saved
           THEN /\ posts' = (nextPostId :> r.row) @@ posts
                /\ creator' = (nextPostId :> caller) @@ creator
                /\ nextPostId' = nextPostId + 1
           ELSE UNCHANGED <<posts, creator, nextPostId>>
        /\ UNCHANGED <<comments, nextCommentId, groups, follows, inflight,
                       succeeded>>

\* GET /posts/{pk}/
PostRetrieve(caller, pk) ==
    /\ resp' = IF pk \in DOMAIN posts
               THEN ObjectResponse("post_retrieve", 200, PostRepr(pk, posts[pk]))
               ELSE NotFound("post_retrieve")
    /\ UNCHANGED <<posts, nextPostId, comments, nextCommentId, groups,
                   follows, inflight, creator, succeeded>>

\* Views without the author check.
IsOwner_Anyone(row, caller) == TRUE

\* The ownership check of update and destroy: instance.author != request.user.
IsOwner(row, caller) == row.author = caller

\* What PostRetrieveUpdateDestroyView.update answers, and the row it leaves.
PostUpdateResult(caller, pk, d, partial) ==
    LET op == "post_update"
        errors == PostSerializerErrors(d, partial)
    IN  IF ~IsAuthenticated(caller)
        THEN [saved |-> FALSE, resp |-> NotAuthenticated(op)]
        ELSE IF pk \notin DOMAIN posts
        THEN [saved |-> FALSE, resp |-> NotFound(op)]
        ELSE IF ~IsOwner(posts[pk], caller)
        THEN [saved |-> FALSE,
              resp |-> Response(op, 403, {"detail"},
                                "You cannot update another author's post.")]
        ELSE IF errors # {}
        THEN [saved |-> FALSE, resp |-> BadRequest(op, errors)]
        ELSE [saved |-> TRUE,
              resp |-> ObjectResponse(op, 200,
                          PostRepr(pk, PostSerializerUpdate(posts[pk], d)))]

\* PUT /posts/{pk}/ (partial = FALSE) and PATCH /posts/{pk}/ (partial = TRUE)
PostUpdate(caller, pk, d, partial) ==
    LET r == PostUpdateResult(caller, pk, d, partial)
    IN  /\ resp' = r.resp
        /\ posts' = IF r.saved
                    THEN [posts EXCEPT ![pk] = PostSerializerUpdate(@, d)]
                    ELSE posts
        /\ UNCHANGED <<nextPostId, comments, nextCommentId, groups, follows,
                       inflight, creator, succeeded>>

\* What PostRetrieveUpdateDestroyView.destroy answers.
PostDestroyResult(caller, pk) ==
    LET op == "post_destroy"
    IN  IF ~IsAuthenticated(caller)
        THEN NotAuthenticated(op)
        ELSE IF pk \notin DOMAIN posts
        THEN NotFound(op)
        ELSE IF ~IsOwner(posts[pk], caller)
        THEN Response(op, 403, {"detail"},
                      "You cannot delete another author's post.")
        ELSE Response(op, 204, NoKeys, "")

\* The comments left when post pk is deleted: Comment.post cascades.
CascadeComments(cs, pk) ==
    [id \in { c \in DOMAIN cs : cs[c].post # pk } |-> cs[id]]

\* The rows of function f without key k.
Without(f, k) == [x \in DOMAIN f \ {k} |-> f[x]]

\* DELETE /posts/{pk}/
PostDestroy(caller, pk) ==
    LET r == PostDestroyResult(caller, pk)
    IN  /\ resp' = r
        /\ IF r.status = 204
           THEN /\ posts' = Without(posts, pk)
                /\ creator' = Without(creator, pk)
                /\ comments' = CascadeComments(comments, pk)
           ELSE UNCHANGED <<posts, creator, comments>>
        /\ UNCHANGED <<nextPostId, nextCommentId, groups, follows, inflight,
                       succeeded>>

---------------------------------------------------------------------------
(* Comment endpoints *)

\* CommentListCreateView.get_queryset: Comment.objects.filter(post=post_id)
CommentsOfPost(post_id) == { c \in DOMAIN comments : comments[c].post = post_id }

\* GET /posts/{post_id}/comments/: pagination_class is None, so the query
\* is never looked at.
CommentList(caller, post_id, q) ==
    /\ resp' = ListResponse("comment_list", CommentsOfPost(post_id))
    /\ UNCHANGED <<posts, nextPostId, comments, nextCommentId, groups,
                   follows, inflight, creator, succeeded>>

\* What CommentListCreateView answers to POST /posts/{post_id}/comments/,
\* and the row it saves.
CommentCreateResult(caller, post_id, d) ==
    LET op == "comment_create"
        errors == CommentSerializerErrors(d, FALSE)
        row == [author |-> caller, post |-> post_id, text |-> d.text.val]
    IN  IF ~IsAuthenticated(caller)
        THEN [saved |-> FALSE, row |-> row, resp |-> NotAuthenticated(op)]
        ELSE IF errors # {}
        THEN [saved |-> FALSE, row |-> row, resp |-> BadRequest(op, errors)]
        ELSE IF post_id \notin DOMAIN posts
        \* `serializer.ValidationError`: a serializer has no such attribute.
        THEN [saved |-> FALSE, row |-> row,
              resp |-> ServerError(op, "AttributeError")]
        ELSE [saved |-> TRUE, row |-> row,
              resp |-> ObjectResponse(op, 201, CommentRepr(nextCommentId, row))]

\* POST /posts/{post_id}/comments/
CommentCreate(caller, post_id, d) ==
    LET r == CommentCreateResult(caller, post_id, d)
    IN  /\ r.saved => nextCommentId <= MaxComments
        /\ resp' = r.resp
        /\ IF r.saved
           THEN /\ comments' = (nextCommentId :> r.row) @@ comments
                /\ nextCommentId' = nextCommentId + 1
           ELSE UNCHANGED <<comments, nextCommentId>>
        /\ UNCHANGED <<posts, nextPostId, groups, follows, inflight, creator,
                       succeeded>>

\* A comment queryset that is not filtered by the post of the path.
CommentQueryset_AnyPost(post_id, pk) ==
    { c \in DOMAIN comments : c = pk }

\* CommentRetrieveUpdateDestroyView.get_queryset:
\* Comment.objects.filter(post=post_id, pk=comment_id)
CommentQueryset(post_id, pk) ==
    { c \in DOMAIN comments : comments[c].post = post_id /\ c = pk }

\* GET /posts/{post_id}/comments/{pk}/
CommentRetrieve(caller, post_id, pk) ==
    /\ resp' = IF CommentQueryset(post_id, pk) # {}
               THEN ObjectResponse("comment_retrieve", 200,
                                   CommentRepr(pk, comments[pk]))
               ELSE NotFound("comment_retrieve")
    /\ UNCHANGED <<posts, nextPostId, comments, nextCommentId, groups,
                   follows, inflight, creator, succeeded>>

\* What CommentRetrieveUpdateDestroyView.update answers.
CommentUpdateResult(caller, post_id, pk, d, partial) ==
    LET op == "comment_update"
        errors == CommentSerializerErrors(d, partial)
    IN  IF ~IsAuthenticated(caller)
        THEN [saved |-> FALSE, resp |-> NotAuthenticated(op)]
        ELSE IF CommentQueryset(post_id, pk) = {}
        THEN [saved |-> FALSE, resp |-> NotFound(op)]
        ELSE IF ~IsOwner(comments[pk], caller)
        THEN [saved |-> FALSE,
              resp |-> Response(op, 403, {"detail"},
                                "You cannot update another author's comment.")]
        ELSE IF errors # {}
        THEN [saved |-> FALSE, resp |-> BadRequest(op, errors)]
        ELSE [saved |-> TRUE,
              resp |-> ObjectResponse(op, 200,
                          CommentRepr(pk, CommentSerializerUpdate(comments[pk], d)))]

\* PUT and PATCH /posts/{post_id}/comments/{pk}/
CommentUpdate(caller, post_id, pk, d, partial) ==
    LET r == CommentUpdateResult(caller, post_id, pk, d, partial)
    IN  /\ resp' = r.resp
        /\ comments' = IF r.saved
                       THEN [comments EXCEPT ![pk] = CommentSerializerUpdate(@, d)]
                       ELSE comments
        /\ UNCHANGED <<posts, nextPostId, nextCommentId, groups, follows,
                       inflight, creator, succeeded>>

\* What CommentRetrieveUpdateDestroyView.destroy answers.
CommentDestroyResult(caller, post_id, pk) ==
    LET op == "comment_destroy"
    IN  IF ~IsAuthenticated(caller)
        THEN NotAuthenticated(op)
        ELSE IF CommentQueryset(post_id, pk) = {}
        THEN NotFound(op)
        ELSE IF ~IsOwner(comments[pk], caller)
        THEN Response(op, 403, {"detail"},
                      "You cannot delete another author's comment.")
        ELSE Response(op, 204, NoKeys, "")

\* DELETE /posts/{post_id}/comments/{pk}/
CommentDestroy(caller, post_id, pk) ==
    LET r == CommentDestroyResult(caller, post_id, pk)
    IN  /\ resp' = r
        /\ comments' = IF r.status = 204 THEN Without(comments, pk) ELSE comments
        /\ UNCHANGED <<posts, nextPostId, nextCommentId, groups, follows,
                       inflight, creator, succeeded>>

---------------------------------------------------------------------------
(* Group endpoints *)

\* GET /groups/
GroupList(q) ==
    /\ resp' = PaginatedList("group_list", groups, q)
    /\ UNCHANGED <<posts, nextPostId, comments, nextCommentId, groups,
                   follows, inflight, creator, succeeded>>

\* GET /groups/{pk}/
GroupDetail(pk) ==
    /\ resp' = IF pk \in groups
               THEN ObjectResponse("group_detail", 200, [id |-> pk])
               ELSE NotFound("group_detail")
    /\ UNCHANGED <<posts, nextPostId, comments, nextCommentId, groups,
                   follows, inflight, creator, succeeded>>

---------------------------------------------------------------------------
(* Follow endpoint *)

RECURSIVE LStrip(_)
LStrip(s) == IF s # << >> /\ Head(s) = SP THEN LStrip(Tail(s)) ELSE s

RECURSIVE RStrip(_)
RStrip(s) ==
    IF s # << >> /\ s[Len(s)] = SP THEN RStrip(SubSeq(s, 1, Len(s) - 1)) ELSE s

\* str.strip(): CharField trims whitespace (trim_whitespace=True).
Strip(s) == RStrip(LStrip(s))

\* The strings a request may send as `following`.
RawNames ==
    Users \cup {Ghost, << >>, <<SP>>}
          \cup { <<SP>> \o u : u \in Users } \cup { u \o <<SP>> : u \in Users }

\* The `following` of a request body: absent, JSON null, a value that is no
\* string (a boolean, a list, an object), or a string.
FollowData ==
    [kind : {"absent", "null", "invalid"}, val : {<< >>}]
        \cup [kind : {"str"}, val : RawNames]

\* FollowSerializer.is_valid: the error of field `following`, or "" when it
\* is valid.  CharField's own checks run first, then validate_following.
FollowSerializerError(d) ==
    CASE d.kind = "absent" -> "This field is required."
      [] d.kind = "null" -> "This field may not be null."
      [] d.kind = "invalid" -> "Not a valid string."
      [] Strip(d.val) = << >> -> "This field may not be blank."
      [] Strip(d.val) \notin Users -> "User with username does not exist."
      [] OTHER -> ""

\* A `following` field that keeps the whitespace around its value.
FollowValidated_Raw(d) == d.val

\* serializer.validated_data["following"]
FollowValidated(d) == Strip(d.val)

FollowRow(user, following) == [user |-> user, following |-> following]

\* A view without the check for an existing row.
FollowExists_Never(rows, user, following) == FALSE

\* Follow.objects.filter(user=..., following=...).exists()
FollowExists(rows, user, following) == BagIn(FollowRow(user, following), rows)

\* Follow.objects.create(user=..., following=...): the table after it.
FollowInsert(rows, user, following) ==
    rows (+) SetToBag({FollowRow(user, following)})

\* A view without the check for a self-follow.
IsSelf_Never(caller, following) == FALSE

\* request.user == following_user
IsSelf(caller, following) == caller = following

\* FollowView.post up to its last check: the response when a check refuses
\* the request, or `create` and the user to follow.
FollowPostResult(caller, d) ==
    LET op == "follow_post"
        error == FollowSerializerError(d)
        following_username == FollowValidated(d)
    IN  IF ~IsAuthenticated(caller)
        THEN [create |-> FALSE, following |-> << >>, resp |-> NotAuthenticated(op)]
        ELSE IF error # ""
        THEN [create |-> FALSE, following |-> << >>,
              resp |-> Response(op, 400, {"following"}, error)]
        ELSE IF following_username \notin Users
        THEN [create |-> FALSE, following |-> << >>,
              resp |-> Response(op, 400, {"detail"}, "User does not exist.")]
        ELSE IF IsSelf(caller, following_username)
        THEN [create |-> FALSE, following |-> << >>,
              resp |-> Response(op, 400, {"detail"}, "You cannot follow yourself.")]
        ELSE IF FollowExists(follows, caller, following_username)
        THEN [create |-> FALSE, following |-> << >>,
              resp |-> Response(op, 400, {"detail"},
                                "You are already following this user.")]
        ELSE [create |-> TRUE, following |-> following_username,
              resp |-> ObjectResponse(op, 201,
                                      FollowRow(caller, following_username))]

\* POST /follow/, the request handled in one step.
FollowPost(caller, d) ==
    LET r == FollowPostResult(caller, d)
    IN  /\ resp' = r.resp
        /\ IF r.create
           THEN /\ follows' = FollowInsert(follows, caller, r.following)
                /\ succeeded' = succeeded \cup {<<caller, r.following>>}
           ELSE UNCHANGED <<follows, succeeded>>
        /\ UNCHANGED <<posts, nextPostId, comments, nextCommentId, groups,
                       inflight, creator>>

\* POST /follow/, first step: the checks.  A request that passes them all
\* is left in flight, its Follow.objects.create still to come.
FollowPostCheck(caller, d) ==
    LET r == FollowPostResult(caller, d)
    IN  /\ r.create => BagCardinality(inflight) < MaxInflight
        /\ IF r.create
           THEN /\ inflight' = inflight (+) SetToBag({FollowRow(caller, r.following)})
                /\ UNCHANGED resp
           ELSE /\ resp' = r.resp
                /\ UNCHANGED inflight
        /\ UNCHANGED <<posts, nextPostId, comments, nextCommentId, groups,
                       follows, creator, succeeded>>

\* POST /follow/, second step: Follow.objects.create and the 201.
FollowPostCreate(row) ==
    /\ BagIn(row, inflight)
    /\ inflight' = inflight (-) SetToBag({row})
    /\ follows' = FollowInsert(follows, row.user, row.following)
    /\ succeeded' = succeeded \cup {<<row.user, row.following>>}
    /\ resp' = ObjectResponse("follow_post", 201, row)
    /\ UNCHANGED <<posts, nextPostId, comments, nextCommentId, groups,
                   creator>>

\* str.lower() on the letters usernames and searches are written in.
Lower(s) ==
    [i \in DOMAIN s |-> CASE s[i] = "A" -> "a"
                          [] s[i] = "B" -> "b"
                          [] s[i] = "Z" -> "z"
                          [] OTHER -> s[i]]

\* following__username__icontains=search
IContains(s, sub) ==
    \E i \in 0..(Len(s) - Len(sub)) :
        SubSeq(Lower(s), i + 1, i + Len(sub)) = Lower(sub)

\* The `search` of a GET /follow/: << >> is an absent or empty parameter.
Searches == { << >>, <<"B">>, <<"z">> }

\* GET /follow/
FollowGet(caller, search) ==
    /\ resp' = IF ~IsAuthenticated(caller)
               THEN NotAuthenticated("follow_list")
               ELSE LET rows == { r \in BagToSet(follows) :
                                    /\ r.user = caller
                                    /\ (search # << >> =>
                                          IContains(r.following, search)) }
                    IN  [ListResponse("follow_list", rows) EXCEPT
                           !.count = BagCardinality(
                                       [r \in rows |-> follows[r]])]
    /\ UNCHANGED <<posts, nextPostId, comments, nextCommentId, groups,
                   follows, inflight, creator, succeeded>>

---------------------------------------------------------------------------
(* Specifications *)

Empty == << >>

\* The tables empty but for the groups.
Init ==
    /\ posts = Empty
    /\ nextPostId = 1
    /\ comments = Empty
    /\ nextCommentId = 1
    /\ groups = SomeGroups
    /\ follows = EmptyBag
    /\ inflight = EmptyBag
    /\ creator = Empty
    /\ succeeded = {}
    /\ req = NoRequest
    /\ resp = NoResponse

\* No request is being answered.
Idle == resp.op = "none"

\* Request r is taken up.
Handle(r) == Idle /\ req' = r

\* The response is sent.
Deliver ==
    /\ ~Idle
    /\ req' = NoRequest
    /\ resp' = NoResponse
    /\ UNCHANGED <<posts, nextPostId, comments, nextCommentId, groups,
                   follows, inflight, creator, succeeded>>

\* The handlers of posts and groups.
PostNext(callers, data, queries) ==
    \/ \E c \in callers, q \in queries :
          /\ Handle(Request("post_list", c, 0, 0, FALSE, NoData, q))
          /\ PostList(c, q)
    \/ \E c \in callers, d \in data :
          /\ Handle(Request("post_create", c, 0, 0, FALSE, d, NoQuery))
          /\ PostCreate(c, d)
    \/ \E c \in callers, pk \in PostPathIds :
          /\ Handle(Request("post_retrieve", c, 0, pk, FALSE, NoData, NoQuery))
          /\ PostRetrieve(c, pk)
    \/ \E c \in callers, pk \in PostPathIds, d \in data, partial \in BOOLEAN :
          /\ Handle(Request("post_update", c, 0, pk, partial, d, NoQuery))
          /\ PostUpdate(c, pk, d, partial)
    \/ \E c \in callers, pk \in PostPathIds :
          /\ Handle(Request("post_destroy", c, 0, pk, FALSE, NoData, NoQuery))
          /\ PostDestroy(c, pk)
    \/ \E q \in queries :
          /\ Handle(Request("group_list", Anonymous, 0, 0, FALSE, NoData, q))
          /\ GroupList(q)
    \/ \E pk \in GroupPks :
          /\ Handle(Request("group_detail", Anonymous, 0, pk, FALSE, NoData, NoQuery))
          /\ GroupDetail(pk)

\* The handlers of comments.
CommentNext(callers, data, queries) ==
    \/ \E c \in callers, p \in PostPathIds, q \in queries :
          /\ Handle(Request("comment_list", c, p, 0, FALSE, NoData, q))
          /\ CommentList(c, p, q)
    \/ \E c \in callers, p \in PostPathIds, d \in data :
          /\ Handle(Request("comment_create", c, p, 0, FALSE, d, NoQuery))
          /\ CommentCreate(c, p, d)
    \/ \E c \in callers, p \in PostPathIds, pk \in CommentPathIds :
          /\ Handle(Request("comment_retrieve", c, p, pk, FALSE, NoData, NoQuery))
          /\ CommentRetrieve(c, p, pk)
    \/ \E c \in callers, p \in PostPathIds, pk \in CommentPathIds,
          d \in data, partial \in BOOLEAN :
          /\ Handle(Request("comment_update", c, p, pk, partial, d, NoQuery))
          /\ CommentUpdate(c, p, pk, d, partial)
    \/ \E c \in callers, p \in PostPathIds, pk \in CommentPathIds :
          /\ Handle(Request("comment_destroy", c, p, pk, FALSE, NoData, NoQuery))
          /\ CommentDestroy(c, p, pk)

\* Bodies that write the text alone.
SmallPostData ==
    { d \in PostData : /\ d.text.val # ""
                       /\ ~d.group.has
                       /\ ~d.author.has }

SmallCommentData == { d \in CommentData : d.text.val = "t1" /\ ~d.post.has }

\* Posts, comments and groups together, every request by a user.
Next ==
    \/ PostNext(Authors, SmallPostData, {NoQuery})
    \/ CommentNext(Authors, SmallCommentData, {NoQuery})
    \/ Deliver

Spec == Init /\ [][Next]_vars

\* Posts and groups alone, from the empty tables.
NextPost ==
    \/ PostNext(Callers, PostData, {NoQuery})
    \/ Deliver

SpecPost == Init /\ [][NextPost]_vars

\* The author of the i-th row of a table filled in advance.
AuthorOf(i) == IF i % 2 = 1 THEN <<"a">> ELSE <<"b">>

\* n posts written in turn by the authors.
SomePosts(n) ==
    [i \in 1..n |-> [author |-> AuthorOf(i), text |-> "t1", group |-> None]]

\* Posts exist, written in turn by the authors; no comment yet.
InitComment ==
    /\ posts = SomePosts(MaxPosts)
    /\ nextPostId = MaxPosts + 1
    /\ comments = Empty
    /\ nextCommentId = 1
    /\ groups = SomeGroups
    /\ follows = EmptyBag
    /\ inflight = EmptyBag
    /\ creator = [i \in 1..MaxPosts |-> AuthorOf(i)]
    /\ succeeded = {}
    /\ req = NoRequest
    /\ resp = NoResponse

\* Comments, and the deletion of posts under them.
NextComment ==
    \/ CommentNext(Callers, CommentData, {NoQuery})
    \/ \E c \in Callers, pk \in PostPathIds :
          /\ Handle(Request("post_destroy", c, 0, pk, FALSE, NoData, NoQuery))
          /\ PostDestroy(c, pk)
    \/ Deliver

SpecComment == InitComment /\ [][NextComment]_vars

\* POST and GET /follow/, one request at a time.
NextFollow ==
    \/ \E c \in Users \cup {Anonymous}, d \in FollowData :
          /\ Handle(Request("follow_post", c, 0, 0, FALSE, d, NoQuery))
          /\ FollowPost(c, d)
    \/ \E c \in Users \cup {Anonymous}, s \in Searches :
          /\ Handle(Request("follow_list", c, 0, 0, FALSE, s, NoQuery))
          /\ FollowGet(c, s)
    \/ Deliver

SpecFollow == Init /\ [][NextFollow]_vars

\* POST /follow/ with its check and its create interleaved among requests:
\* a request that passes its checks is answered by its create step.
NextFollowRace ==
    \/ \E c \in Authors, d \in FollowData :
          /\ Idle
          /\ FollowPostCheck(c, d)
          /\ req' = IF FollowPostResult(c, d).create
                    THEN req
                    ELSE Request("follow_post", c, 0, 0, FALSE, d, NoQuery)
    \/ \E row \in BagToSet(inflight) :
          /\ Handle(Request("follow_post", row.user, 0, 0, FALSE,
                            [kind |-> "str", val |-> row.following], NoQuery))
          /\ FollowPostCreate(row)
    \/ \E c \in Authors, s \in Searches :
          /\ Handle(Request("follow_list", c, 0, 0, FALSE, s, NoQuery))
          /\ FollowGet(c, s)
    \/ Deliver

SpecFollowRace == Init /\ [][NextFollowRace]_vars

\* The sizes of the collections that are listed: around 0, around
\* page_size, and from max_page_size - 1 on.
Sizes ==
    (0..2) \cup ((page_size - 1)..(page_size + 1))
           \cup ((max_page_size - 1)..MaxItems)

\* Every table holds n rows; the comments are those of post 1.
InitPage ==
    \E n \in Sizes :
        /\ posts = SomePosts(n)
        /\ nextPostId = n + 1
        /\ comments = [i \in 1..n |->
                         [author |-> AuthorOf(i), post |-> 1, text |-> "t1"]]
        /\ nextCommentId = n + 1
        /\ groups = 1..n
        /\ follows = EmptyBag
        /\ inflight = EmptyBag
        /\ creator = [i \in 1..n |-> AuthorOf(i)]
        /\ succeeded = {}
        /\ req = NoRequest
        /\ resp = NoResponse

\* The queries of a list request: `limit` and `offset` absent, not a
\* number, and around the values that matter.
PageQueries ==
    Queries({NoParam, [kind |-> "text", val |-> 0]}
              \cup [kind : {"int"},
                    val : {-1, 0, 1, 2, max_page_size, max_page_size + 1}],
            {NoParam, [kind |-> "text", val |-> 0], [kind |-> "last", val |-> 0]}
              \cup [kind : {"int"}, val : {0, 1, 2, 3}])

\* The list endpoints alone.
NextPage ==
    \/ \E q \in PageQueries :
          /\ Handle(Request("post_list", Anonymous, 0, 0, FALSE, NoData, q))
          /\ PostList(Anonymous, q)
    \/ \E q \in PageQueries :
          /\ Handle(Request("group_list", Anonymous, 0, 0, FALSE, NoData, q))
          /\ GroupList(q)
    \/ \E q \in PageQueries :
          /\ Handle(Request("comment_list", Anonymous, 1, 0, FALSE, NoData, q))
          /\ CommentList(Anonymous, 1, q)
    \/ Deliver

SpecPage == InitPage /\ [][NextPage]_vars

---------------------------------------------------------------------------
(* Properties *)

\* A response is waiting to be sent.
Answered == resp.op # "none"

\* This step is a handler answering request req'.
Handled == Idle /\ resp'.op # "none"

\* The request handled in this step is a PUT, PATCH or DELETE of an existing
\* post, or of an existing comment under its own post, by a user who is not
\* its author.
NonAuthorWrite ==
    /\ req'.caller \in Users
    /\ \/ /\ req'.op \in {"post_update", "post_destroy"}
          /\ req'.pk \in DOMAIN posts
          /\ posts[req'.pk].author # req'.caller
       \/ /\ req'.op \in {"comment_update", "comment_destroy"}
          /\ req'.pk \in DOMAIN comments
          /\ comments[req'.pk].post = req'.post_id
          /\ comments[req'.pk].author # req'.caller

\* C1: a PUT, PATCH or DELETE of an existing post or comment by an
\* authenticated caller who is not its author is answered 403 and leaves
\* every post and every comment as it was, whatever requests came before.
C1_NonAuthorForbidden ==
    [][(Handled /\ NonAuthorWrite) =>
         (resp'.status = 403 /\ posts' = posts /\ comments' = comments)]_vars

\* C1's case: a user has sent a PATCH for another author's comment.
C1_Witness ==
    /\ Answered
    /\ req.op = "comment_update"
    /\ req.partial
    /\ req.pk \in DOMAIN comments
    /\ comments[req.pk].post = req.post_id
    /\ comments[req.pk].author # req.caller
    /\ resp.status = 403

\* The number of Follow rows of a pair.
RowsOf(rows, user, following) == CopiesIn(FollowRow(user, following), rows)

\* C2: there is never more than one Follow row of a (user, following) pair,
\* also when requests to POST /follow/ interleave.
C2_OneRowPerPair ==
    \A u \in Users, t \in Users : RowsOf(follows, u, t) <= 1

\* The request handled in this step is a POST /follow/ by a user.
FollowPosted == Handled /\ req'.op = "follow_post" /\ req'.caller \in Users

\* The user a request body names: its `following`, a string, trimmed.
Named(d, t) == d.kind = "str" /\ Strip(d.val) = t

\* C3: once a POST /follow/ of U naming T was answered 201, every later
\* one of U naming T is answered 400 and writes no row, and the pair has
\* exactly one row.
C3_SecondFollowRejected ==
    [][/\ \A t \in Users :
            (/\ FollowPosted
             /\ Named(req'.data, t)
             /\ <<req'.caller, t>> \in succeeded)
            => (resp'.status = 400 /\ follows' = follows)
       /\ \A pair \in succeeded' : RowsOf(follows', pair[1], pair[2]) = 1]_vars

\* C3's case: a user has repeated a follow that had been answered 201.
C3_Witness ==
    /\ Answered
    /\ req.op = "follow_post"
    /\ req.data.kind = "str"
    /\ <<req.caller, Strip(req.data.val)>> \in succeeded
    /\ resp.status = 400
    /\ RowsOf(follows, req.caller, Strip(req.data.val)) = 1

\* C4: a POST /follow/ whose `following` is the caller's own username is
\* answered 400 "You cannot follow yourself." and writes no row, and no
\* row ever has user = following.
C4_NoSelfFollow ==
    [][/\ (FollowPosted /\ req'.data.kind = "str" /\ req'.data.val = req'.caller)
            => /\ resp'.status = 400
               /\ resp'.msg = "You cannot follow yourself."
               /\ follows' = follows
               /\ inflight' = inflight
       /\ \A u \in Users : RowsOf(follows', u, u) = 0]_vars

\* C4's case: a user who follows someone has asked to follow themselves.
C4_Witness ==
    /\ Answered
    /\ req.op = "follow_post"
    /\ req.caller \in Users
    /\ req.data.kind = "str"
    /\ req.data.val = req.caller
    /\ resp.msg = "You cannot follow yourself."
    /\ \E t \in Users : RowsOf(follows, req.caller, t) = 1

\* The first of the four checks that request body d of caller u fails, and
\* 0 when it passes them all: `following` present, the user it names
\* exists, that user is not the caller, the caller does not follow them yet.
FirstFailedCheck(u, d) ==
    CASE ~(d.kind = "str" /\ Strip(d.val) # << >>) -> 1
      [] Strip(d.val) \notin Users -> 2
      [] Strip(d.val) = u -> 3
      [] RowsOf(follows, u, Strip(d.val)) > 0 -> 4
      [] OTHER -> 0

\* The messages of the 400 of each check.
CheckMessages(k) ==
    CASE k = 1 -> {"This field is required.", "This field may not be null.",
                   "Not a valid string.", "This field may not be blank."}
      [] k = 2 -> {"User with username does not exist.", "User does not exist."}
      [] k = 3 -> {"You cannot follow yourself."}
      [] k = 4 -> {"You are already following this user."}

\* C5: POST /follow/ answers with the 400 of the first check that fails, in
\* the order present, exists, not self, not yet followed, and writes no row
\* then; it writes the row and answers 201 exactly when all four pass.
C5_CheckOrder ==
    [][FollowPosted =>
         LET k == FirstFailedCheck(req'.caller, req'.data)
         IN  IF k = 0
             THEN /\ resp'.status = 201
                  /\ follows' = follows (+) SetToBag({FollowRow(req'.caller,
                                                        Strip(req'.data.val))})
             ELSE /\ resp'.status = 400
                  /\ resp'.msg \in CheckMessages(k)
                  /\ follows' = follows]_vars

\* C5's case: a user who is followed already by the caller is named after
\* a request that named nobody who exists.
C5_Witness ==
    /\ Answered
    /\ req.op = "follow_post"
    /\ req.caller \in Users
    /\ req.data.kind = "str"
    /\ Strip(req.data.val) = Ghost
    /\ resp.status = 400
    /\ resp.msg = "User with username does not exist."
    /\ BagCardinality(follows) >= 2

\* The request handled in this step is a POST of a comment with a valid
\* body by a user.
CommentPosted ==
    /\ Handled
    /\ req'.op = "comment_create"
    /\ req'.caller \in Users
    /\ req'.data.text.has
    /\ req'.data.text.val # ""

\* C6: a POST of a comment with a valid body under a post_id that no post
\* has is answered with a client error, 400 or 404, and writes no comment.
C6_CommentOfMissingPost ==
    [][(CommentPosted /\ req'.post_id \notin DOMAIN posts) =>
         (resp'.status \in {400, 404} /\ comments' = comments)]_vars

\* C7: the author of every post is the caller whose request created it,
\* whatever `author` any create, PUT or PATCH carried.
C7_AuthorIsCreator ==
    \A p \in DOMAIN posts :
        p \in DOMAIN creator /\ posts[p].author = creator[p]

\* C7's case: the author has sent a PUT or PATCH that names another user
\* as `author`, and it was accepted.
C7_Witness ==
    /\ Answered
    /\ req.op = "post_update"
    /\ resp.status = 200
    /\ req.data.author.has
    /\ req.data.author.val # req.caller
    /\ posts[req.pk].author = req.caller
    /\ creator[req.pk] = req.caller

\* The request handled in this step names a comment that does not exist or
\* that belongs to another post than the path's.
CommentPathMismatch ==
    /\ req'.op \in {"comment_retrieve", "comment_update", "comment_destroy"}
    /\ req'.caller \in Users
    /\ \/ req'.pk \notin DOMAIN comments
       \/ comments[req'.pk].post # req'.post_id

\* C8: GET, PUT, PATCH and DELETE of /posts/{post_id}/comments/{id}/ answer
\* 404 and change nothing when the comment does not exist or is not of post
\* post_id, whoever asks; the list of /posts/{post_id}/comments/ is exactly
\* the comments of post post_id.
C8_CommentPath ==
    [][Handled =>
         /\ CommentPathMismatch =>
              (resp'.status = 404 /\ posts' = posts /\ comments' = comments)
         /\ req'.op = "comment_list" =>
              /\ resp'.status = 200
              /\ resp'.kind = "list"
              /\ resp'.ids = { c \in DOMAIN comments :
                                 comments[c].post = req'.post_id }]_vars

\* C8's case: the author of a comment has sent a DELETE for it under
\* another post, which exists.
C8_Witness ==
    /\ Answered
    /\ req.op = "comment_destroy"
    /\ req.pk \in DOMAIN comments
    /\ req.post_id \in DOMAIN posts
    /\ comments[req.pk].post # req.post_id
    /\ comments[req.pk].author = req.caller
    /\ resp.status = 404

\* The request handled in this step is a POST of a post with a valid text
\* by a user.
PostPosted ==
    /\ Handled
    /\ req'.op = "post_create"
    /\ req'.caller \in Users
    /\ req'.data.text.has
    /\ req'.data.text.val # ""

\* The posts this step has created.
NewPosts == DOMAIN posts' \ DOMAIN posts

\* C9: a POST of a post with a valid text: with a `group` that names a
\* group, it is answered 201 and the post has that group; with a `group`
\* that names no group, it is answered 400 with `group` as the only key and
\* no post is written; without `group`, the post is written with no group.
C9_GroupOfNewPost ==
    [][PostPosted =>
         LET g == req'.data.group
         IN  /\ (g.has /\ g.val # None /\ g.val \subseteq groups) =>
                  /\ resp'.status = 201
                  /\ \E p \in NewPosts : posts'[p].group = g.val
             /\ (g.has /\ g.val # None /\ ~(g.val \subseteq groups)) =>
                  /\ resp'.status = 400
                  /\ resp'.keys = {"group"}
                  /\ posts' = posts
             /\ ~g.has =>
                  /\ resp'.status = 201
                  /\ \E p \in NewPosts : posts'[p].group = None]_vars

\* C9's case: a post was asked for in a group that does not exist.
C9_Witness ==
    /\ Answered
    /\ req.op = "post_create"
    /\ req.caller \in Users
    /\ req.data.text.has
    /\ req.data.group.has
    /\ req.data.group.val = {2}
    /\ resp.status = 400
    /\ resp.keys = {"group"}

\* The rows GET /posts/ and GET /groups/ list.
Collection(op) == IF op = "post_list" THEN DOMAIN posts ELSE groups

\* C10 as the specification has it: /posts/ and /groups/ answer the whole
\* collection when the query has neither `limit` nor `offset`, and otherwise
\* an envelope whose page has at most min(limit, 100) rows, 10 when `limit`
\* is absent; the list of comments is never an envelope.
C10_Original ==
    Answered =>
      /\ req.op \in {"post_list", "group_list"} =>
           IF req.q.limit.kind = "absent" /\ req.q.offset.kind = "absent"
           THEN resp.kind = "list" /\ resp.ids = Collection(req.op)
           ELSE /\ resp.kind = "page"
                /\ req.q.limit.kind = "absent" =>
                     Cardinality(resp.ids) <= 10
                /\ req.q.limit.kind = "int" =>
                     Cardinality(resp.ids) <= Min(req.q.limit.val, 100)
      /\ req.op = "comment_list" => resp.kind = "list"

\* The page size a query asks for: `limit` when it is a positive integer,
\* at most 100, and 10 otherwise.
AskedSize(q) ==
    IF q.limit.kind = "int" /\ q.limit.val >= 1
    THEN (IF q.limit.val > 100 THEN 100 ELSE q.limit.val)
    ELSE 10

\* The number of pages of n rows, size rows a page: at least one.
Pages(n, size) ==
    CHOOSE k \in 1..(n + 1) : k * size >= n /\ (k = 1 \/ (k - 1) * size < n)

\* `offset` names a page: it is absent, `last`, or an integer from 1 to
\* the number of pages.
NamesPage(q, n) ==
    \/ q.offset.kind \in {"absent", "last"}
    \/ /\ q.offset.kind = "int"
       /\ q.offset.val >= 1
       /\ q.offset.val <= Pages(n, AskedSize(q))

\* C10, amended: /posts/ and /groups/ answer the whole collection when the
\* query has neither `limit` nor `offset`; otherwise they answer 404 when
\* `offset` names no page, and else an envelope whose page has at most
\* min(limit, 100) rows when `limit` is a positive integer and at most 10
\* when it is not; the list of comments is never an envelope.
C10_Paging ==
    Answered =>
      /\ req.op \in {"post_list", "group_list"} =>
           IF req.q.limit.kind = "absent" /\ req.q.offset.kind = "absent"
           THEN resp.kind = "list" /\ resp.ids = Collection(req.op)
           ELSE IF NamesPage(req.q, Cardinality(Collection(req.op)))
           THEN /\ resp.kind = "page"
                /\ Cardinality(resp.ids) <= AskedSize(req.q)
           ELSE resp.status = 404
      /\ req.op = "comment_list" =>
           resp.kind = "list" /\ resp.ids = CommentsOfPost(req.post_id)

\* C10's case: more than 100 posts, a limit above 100, a page of 100.
C10_Witness ==
    /\ Answered
    /\ req.op = "post_list"
    /\ req.q.limit.kind = "int"
    /\ req.q.limit.val > 100
    /\ Cardinality(DOMAIN posts) > 100
    /\ resp.kind = "page"
    /\ Cardinality(resp.ids) = 100

=============================================================================
